---- MODULE Spec2Model ----
(***************************************************************************)
(* Model of nessusImpl.AllPlugins (src/nessie.go:594-645): the bulk plugin *)
(* enumeration pipeline.  One goroutine per plugin family lists the        *)
(* family's plugin IDs into idChan, ten workers resolve the IDs through    *)
(* PluginDetails into plugChan, and a coordinator goroutine closes idChan  *)
(* after wgf.Wait() and plugChan after wgp.Wait().                         *)
(*                                                                         *)
(* The three gateway calls (PluginFamilies, FamilyDetails, PluginDetails)  *)
(* are the environment: whether each one returns an error is an input,     *)
(* drawn in Init.  A call that returns a nil error returns a decoded,      *)
(* non-nil reply.  The workers are anonymous goroutines running the same   *)
(* closure, so the pool is kept as counts per program position.            *)
(***************************************************************************)
EXTENDS Integers, Sequences, FiniteSets, TLC

\* ---- bounds of the explored inputs ----
\* families returned by the listing, plugins listed by one family, and plugin
\* IDs that enter the pipeline (listed by families whose fetch succeeds)
MaxFamilies == 2
MaxPlugins == 3
MaxLeaves == 3

\* ---- program constants ----
PlugChanCap == 20
IdChanCap == 20
NumWorkers == 10

FamilyIDs == 1..MaxFamilies
PluginIDs == 1..MaxPlugins

VARIABLES
  listErr,      \* input: PluginFamilies() returns an error
  families,     \* input: the family IDs PluginFamilies() returns, in order
  famPlugins,   \* input: famPlugins[f] = plugin IDs FamilyDetails(f) lists
  famErr,       \* input: families whose FamilyDetails call returns an error
  plugErr,      \* input: plugin IDs whose PluginDetails call returns an error
  mpc,          \* position of AllPlugins itself
  fi,           \* number of family goroutines launched so far
  wi,           \* number of workers launched so far
  retChan,      \* channel value returned by AllPlugins
  retErr,       \* error value returned by AllPlugins
  fpc,          \* fpc[f]: position of the goroutine of family f
  fidx,         \* fidx[f]: index of the plugin the goroutine of f is at
  wgf,          \* counter of sync.WaitGroup wgf
  wgp,          \* counter of sync.WaitGroup wgp
  idChan,       \* buffered contents of idChan
  idClosed,     \* close(idChan) has run
  plugChan,     \* buffered contents of plugChan
  plugClosed,   \* close(plugChan) has run
  wRecv,        \* workers at "for id := range idChan"
  wFetch,       \* wFetch[id]: workers inside PluginDetails(id)
  wSend,        \* wSend[id]: workers at "plugChan <- *plugin"
  wDone,        \* workers at wgp.Done()
  wExit,        \* workers whose range loop has ended
  cpc,          \* position of the coordinator goroutine
  received,     \* received[id]: records the caller has received
  callerDone,   \* the caller has observed the close of the returned channel
  panicked,     \* runtime panic raised, "none" while the process is alive
  famCalls,     \* famCalls[f]: FamilyDetails(f) calls issued
  plugCalls,    \* plugCalls[id]: PluginDetails(id) calls issued
  callerStopped,\* the caller has abandoned the returned channel
  self,         \* the invocation of AllPlugins the variables above belong to
  peer          \* the locals of the other running invocation, <<>> if none

inputs == <<listErr, families, famPlugins, famErr, plugErr>>
mainVars == <<mpc, fi, wi, retChan, retErr>>
famVars == <<fpc, fidx>>
workerVars == <<wRecv, wFetch, wSend, wDone, wExit>>
callerVars == <<received, callerDone>>
outside == <<callerStopped, self, peer>>
vars == <<listErr, families, famPlugins, famErr, plugErr, mpc, fi, wi,
          retChan, retErr, fpc, fidx, wgf, wgp, idChan, idClosed, plugChan,
          plugClosed, wRecv, wFetch, wSend, wDone, wExit, cpc, received,
          callerDone, panicked, famCalls, plugCalls, callerStopped, self,
          peer>>

\* ---- helpers ----
RECURSIVE SumOver(_, _)
SumOver(f, S) ==
  IF S = {} THEN 0
  ELSE LET x == CHOOSE y \in S : TRUE IN f[x] + SumOver(f, S \ {x})

BagSize(b) == SumOver(b, DOMAIN b)

EmptyBag == [id \in PluginIDs |-> 0]

BagAdd(b, id) == [b EXCEPT ![id] = @ + 1]

BagRemove(b, id) == [b EXCEPT ![id] = @ - 1]

\* number of occurrences of id in the sequence s
Occurrences(s, id) == Cardinality({i \in 1..Len(s) : s[i] = id})

Alive == panicked = "none"

\* the plugin lists a family may report: the IDs 1..n in order, so that two
\* families list the same ID
PluginLists == {[i \in 1..n |-> i] : n \in 0..MaxPlugins}

\* number of plugin IDs the families outside failing put on idChan
Enqueued(plugins, failing) ==
  SumOver([f \in FamilyIDs |-> IF f \in failing THEN 0 ELSE Len(plugins[f])],
          FamilyIDs)

\* ---- initial state: the inputs are chosen, nothing has run ----
Init ==
  /\ listErr \in BOOLEAN
  /\ \E k \in 0..MaxFamilies : families = [i \in 1..k |-> i]
  /\ famPlugins \in [FamilyIDs -> PluginLists]
  /\ \A f \in FamilyIDs : f > Len(families) => famPlugins[f] = <<>>
  /\ famErr \in SUBSET {families[i] : i \in 1..Len(families)}
  /\ plugErr \in SUBSET {id \in PluginIDs :
         \E f \in FamilyIDs \ famErr : Occurrences(famPlugins[f], id) > 0}
  /\ \A f \in famErr : Len(famPlugins[f]) = MaxPlugins
  /\ Enqueued(famPlugins, famErr) <= MaxLeaves
  /\ mpc = "list"
  /\ fi = 0
  /\ wi = 0
  /\ retChan = "none"
  /\ retErr = "none"
  /\ fpc = [f \in FamilyIDs |-> "unspawned"]
  /\ fidx = [f \in FamilyIDs |-> 0]
  /\ wgf = 0
  /\ wgp = 0
  /\ idChan = <<>>
  /\ idClosed = FALSE
  /\ plugChan = <<>>
  /\ plugClosed = FALSE
  /\ wRecv = 0
  /\ wFetch = EmptyBag
  /\ wSend = EmptyBag
  /\ wDone = 0
  /\ wExit = 0
  /\ cpc = "unspawned"
  /\ received = EmptyBag
  /\ callerDone = FALSE
  /\ panicked = "none"
  /\ famCalls = [f \in FamilyIDs |-> 0]
  /\ plugCalls = EmptyBag
  /\ callerStopped = FALSE
  /\ self = 1
  /\ peer = <<>>

\* number of plugins of the family that overfills idChan
FullLeaves == IdChanCap + 1

\* initial state of the runs that fill idChan: family 1 lists FullLeaves
\* plugins, one more than idChan buffers, of which only the last one (ID 2)
\* can be fetched; the fetch of family 2 fails
InitFull ==
  /\ listErr = FALSE
  /\ families = <<1, 2>>
  /\ famPlugins = [f \in FamilyIDs |->
                     IF f = 1
                       THEN [i \in 1..FullLeaves |-> IF i = FullLeaves THEN 2 ELSE 1]
                       ELSE <<>>]
  /\ famErr = {2}
  /\ plugErr = {1}
  /\ mpc = "list"
  /\ fi = 0
  /\ wi = 0
  /\ retChan = "none"
  /\ retErr = "none"
  /\ fpc = [f \in FamilyIDs |-> "unspawned"]
  /\ fidx = [f \in FamilyIDs |-> 0]
  /\ wgf = 0
  /\ wgp = 0
  /\ idChan = <<>>
  /\ idClosed = FALSE
  /\ plugChan = <<>>
  /\ plugClosed = FALSE
  /\ wRecv = 0
  /\ wFetch = EmptyBag
  /\ wSend = EmptyBag
  /\ wDone = 0
  /\ wExit = 0
  /\ cpc = "unspawned"
  /\ received = EmptyBag
  /\ callerDone = FALSE
  /\ panicked = "none"
  /\ famCalls = [f \in FamilyIDs |-> 0]
  /\ plugCalls = EmptyBag
  /\ callerStopped = FALSE
  /\ self = 1
  /\ peer = <<>>

\* the state before AllPlugins has run a statement
NothingRun ==
  /\ mpc = "list"
  /\ fi = 0
  /\ wi = 0
  /\ retChan = "none"
  /\ retErr = "none"
  /\ fpc = [f \in FamilyIDs |-> "unspawned"]
  /\ fidx = [f \in FamilyIDs |-> 0]
  /\ wgf = 0
  /\ wgp = 0
  /\ idChan = <<>>
  /\ idClosed = FALSE
  /\ plugChan = <<>>
  /\ plugClosed = FALSE
  /\ wRecv = 0
  /\ wFetch = EmptyBag
  /\ wSend = EmptyBag
  /\ wDone = 0
  /\ wExit = 0
  /\ cpc = "unspawned"
  /\ received = EmptyBag
  /\ callerDone = FALSE
  /\ panicked = "none"
  /\ famCalls = [f \in FamilyIDs |-> 0]
  /\ plugCalls = EmptyBag
  /\ callerStopped = FALSE

\* one more plugin than plugChan and the ten workers can hold together
BackpressureLeaves == PlugChanCap + NumWorkers + 1

\* initial state of the runs that fill plugChan and every worker: the only
\* family lists BackpressureLeaves times the plugin 1 and every fetch succeeds
InitBackpressure ==
  /\ listErr = FALSE
  /\ families = <<1>>
  /\ famPlugins = [f \in FamilyIDs |->
                     IF f = 1 THEN [i \in 1..BackpressureLeaves |-> 1] ELSE <<>>]
  /\ famErr = {}
  /\ plugErr = {}
  /\ NothingRun
  /\ self = 1
  /\ peer = <<>>

\* initial state of the runs that fill plugChan: the only family lists
\* FullLeaves times the plugin 1, one more than plugChan buffers, and every
\* fetch succeeds
InitAbandon ==
  /\ listErr = FALSE
  /\ families = <<1>>
  /\ famPlugins = [f \in FamilyIDs |->
                     IF f = 1 THEN [i \in 1..FullLeaves |-> 1] ELSE <<>>]
  /\ famErr = {}
  /\ plugErr = {}
  /\ NothingRun
  /\ self = 1
  /\ peer = <<>>

\* ---- AllPlugins, the calling goroutine ----

\* as MainList, but the error of the listing is not checked
MainList_IgnoreErr ==
  /\ Alive
  /\ mpc = "list"
  /\ mpc' = IF Len(families) = 0 THEN "spawnWorkers" ELSE "spawnFam"
  /\ UNCHANGED <<inputs, outside, fi, wi, retChan, retErr, famVars, wgf, wgp, idChan,
                 idClosed, plugChan, plugClosed, workerVars, cpc, callerVars,
                 panicked, famCalls, plugCalls>>

\* as MainList, but a failed listing returns nil, nil
MainList_SwallowErr ==
  /\ Alive
  /\ mpc = "list"
  /\ IF listErr
       THEN /\ mpc' = "returned"
            /\ retChan' = "nil"
            /\ retErr' = "nil"
       ELSE /\ mpc' = IF Len(families) = 0 THEN "spawnWorkers" ELSE "spawnFam"
            /\ UNCHANGED <<retChan, retErr>>
  /\ UNCHANGED <<inputs, outside, fi, wi, famVars, wgf, wgp, idChan, idClosed, plugChan,
                 plugClosed, workerVars, cpc, callerVars, panicked, famCalls,
                 plugCalls>>

\* as MainList, but the coordinator goroutine is launched right after the
\* listing, before the loop that spawns the family goroutines
MainList_CoordFirst ==
  /\ Alive
  /\ mpc = "list"
  /\ IF listErr
       THEN /\ mpc' = "returned"
            /\ retChan' = "nil"
            /\ retErr' = "err"
            /\ UNCHANGED cpc
       ELSE /\ mpc' = IF Len(families) = 0 THEN "spawnWorkers" ELSE "spawnFam"
            /\ cpc' = "waitFamilies"
            /\ UNCHANGED <<retChan, retErr>>
  /\ UNCHANGED <<inputs, outside, fi, wi, famVars, wgf, wgp, idChan, idClosed, plugChan,
                 plugClosed, workerVars, callerVars, panicked, famCalls,
                 plugCalls>>

\* families, err := n.PluginFamilies(); if err != nil { return nil, err }
MainList ==
  /\ Alive
  /\ mpc = "list"
  /\ IF listErr
       THEN /\ mpc' = "returned"
            /\ retChan' = "nil"
            /\ retErr' = "err"
       ELSE /\ mpc' = IF Len(families) = 0 THEN "spawnWorkers" ELSE "spawnFam"
            /\ UNCHANGED <<retChan, retErr>>
  /\ UNCHANGED <<inputs, outside, fi, wi, famVars, wgf, wgp, idChan, idClosed, plugChan,
                 plugClosed, workerVars, cpc, callerVars, panicked, famCalls,
                 plugCalls>>

\* as MainSpawnFamily, but without wgf.Add(1)
MainSpawnFamily_NoAdd ==
  /\ Alive
  /\ mpc = "spawnFam"
  /\ fi < Len(families)
  /\ fpc' = [fpc EXCEPT ![families[fi + 1]] = "start"]
  /\ fi' = fi + 1
  /\ mpc' = IF fi + 1 = Len(families) THEN "spawnWorkers" ELSE "spawnFam"
  /\ UNCHANGED <<inputs, outside, wi, retChan, retErr, fidx, wgf, wgp, idChan, idClosed,
                 plugChan, plugClosed, workerVars, cpc, callerVars, panicked,
                 famCalls, plugCalls>>

\* as MainSpawnFamily, but the loop takes a slot of a one-place semaphore
\* first: the next goroutine is launched only when no family goroutine runs
MainSpawnFamily_Capped ==
  /\ Alive
  /\ mpc = "spawnFam"
  /\ fi < Len(families)
  /\ \A f \in FamilyIDs : fpc[f] \in {"unspawned", "done"}
  /\ wgf' = wgf + 1
  /\ fpc' = [fpc EXCEPT ![families[fi + 1]] = "start"]
  /\ fi' = fi + 1
  /\ mpc' = IF fi + 1 = Len(families) THEN "spawnWorkers" ELSE "spawnFam"
  /\ UNCHANGED <<inputs, outside, wi, retChan, retErr, fidx, wgp, idChan, idClosed,
                 plugChan, plugClosed, workerVars, cpc, callerVars, panicked,
                 famCalls, plugCalls>>

\* one iteration of "for _, family := range families": wgf.Add(1); go func
MainSpawnFamily ==
  /\ Alive
  /\ mpc = "spawnFam"
  /\ fi < Len(families)
  /\ wgf' = wgf + 1
  /\ fpc' = [fpc EXCEPT ![families[fi + 1]] = "start"]
  /\ fi' = fi + 1
  /\ mpc' = IF fi + 1 = Len(families) THEN "spawnWorkers" ELSE "spawnFam"
  /\ UNCHANGED <<inputs, outside, wi, retChan, retErr, fidx, wgp, idChan, idClosed,
                 plugChan, plugClosed, workerVars, cpc, callerVars, panicked,
                 famCalls, plugCalls>>

\* as MainSpawnWorker, but the loop runs while i <= 10
MainSpawnWorker_OneMore ==
  /\ Alive
  /\ mpc = "spawnWorkers"
  /\ wi < NumWorkers + 1
  /\ wi' = wi + 1
  /\ wRecv' = wRecv + 1
  /\ mpc' = IF wi + 1 = NumWorkers + 1 THEN "spawnCoord" ELSE "spawnWorkers"
  /\ UNCHANGED <<inputs, outside, fi, retChan, retErr, famVars, wgf, wgp, idChan,
                 idClosed, plugChan, plugClosed, wFetch, wSend, wDone, wExit,
                 cpc, callerVars, panicked, famCalls, plugCalls>>

\* one iteration of "for i := 0; i < 10; i++": go func
MainSpawnWorker ==
  /\ Alive
  /\ mpc = "spawnWorkers"
  /\ wi < NumWorkers
  /\ wi' = wi + 1
  /\ wRecv' = wRecv + 1
  /\ mpc' = IF wi + 1 = NumWorkers THEN "spawnCoord" ELSE "spawnWorkers"
  /\ UNCHANGED <<inputs, outside, fi, retChan, retErr, famVars, wgf, wgp, idChan,
                 idClosed, plugChan, plugClosed, wFetch, wSend, wDone, wExit,
                 cpc, callerVars, panicked, famCalls, plugCalls>>

\* go func() { wgf.Wait(); ... }()
MainSpawnCoord ==
  /\ Alive
  /\ mpc = "spawnCoord"
  /\ cpc' = "waitFamilies"
  /\ mpc' = "return"
  /\ UNCHANGED <<inputs, outside, fi, wi, retChan, retErr, famVars, wgf, wgp, idChan,
                 idClosed, plugChan, plugClosed, workerVars, callerVars,
                 panicked, famCalls, plugCalls>>

\* return plugChan, nil
MainReturn ==
  /\ Alive
  /\ mpc = "return"
  /\ mpc' = "returned"
  /\ retChan' = "plugChan"
  /\ retErr' = "nil"
  /\ UNCHANGED <<inputs, outside, fi, wi, famVars, wgf, wgp, idChan, idClosed, plugChan,
                 plugClosed, workerVars, cpc, callerVars, panicked, famCalls,
                 plugCalls>>

\* ---- the goroutine of family f ----

\* the goroutine starts and issues n.FamilyDetails(famID)
FamilyCall(f) ==
  /\ Alive
  /\ fpc[f] = "start"
  /\ fpc' = [fpc EXCEPT ![f] = "fetching"]
  /\ famCalls' = [famCalls EXCEPT ![f] = @ + 1]
  /\ UNCHANGED <<inputs, outside, mainVars, fidx, wgf, wgp, idChan, idClosed, plugChan,
                 plugClosed, workerVars, cpc, callerVars, panicked, plugCalls>>

\* the body of "for _, plugin := range famDetails.Plugins", in program order:
\* wgp.Add(1), then idChan <- plugin.ID
LoopBody_SendFirst == <<"send", "add">>

LoopBody == <<"add", "send">>

\* position after FamilyDetails(f) has returned: "exit" on an error or an
\* empty plugin list, else the first iteration of the range loop
AfterFamilyDetails_IgnoreErr(f) ==
  IF Len(famPlugins[f]) = 0 THEN "exit" ELSE LoopBody[1]

AfterFamilyDetails(f) ==
  IF f \in famErr \/ Len(famPlugins[f]) = 0 THEN "exit" ELSE LoopBody[1]

\* position of the goroutine of f after the statement at position p of the
\* loop body: the second statement, the next iteration, or the end of the loop
AfterStatement(f, p) ==
  IF p = LoopBody[1] THEN LoopBody[2]
  ELSE IF fidx[f] < Len(famPlugins[f]) THEN LoopBody[1] ELSE "exit"

\* index of the plugin the goroutine of f is at after the statement at p
IndexAfterStatement(f, p) ==
  IF p = LoopBody[2] /\ fidx[f] < Len(famPlugins[f]) THEN fidx[f] + 1
  ELSE fidx[f]

\* famDetails, err := n.FamilyDetails(famID) returns; if err != nil { return }
FamilyReturn(f) ==
  /\ Alive
  /\ fpc[f] = "fetching"
  /\ fpc' = [fpc EXCEPT ![f] = AfterFamilyDetails(f)]
  /\ fidx' = [fidx EXCEPT ![f] = IF AfterFamilyDetails(f) = "exit" THEN @ ELSE 1]
  /\ UNCHANGED <<inputs, outside, mainVars, wgf, wgp, idChan, idClosed, plugChan,
                 plugClosed, workerVars, cpc, callerVars, panicked, famCalls,
                 plugCalls>>

\* wgp.Add(1)
FamilyAdd(f) ==
  /\ Alive
  /\ fpc[f] = "add"
  /\ wgp' = wgp + 1
  /\ fpc' = [fpc EXCEPT ![f] = AfterStatement(f, "add")]
  /\ fidx' = [fidx EXCEPT ![f] = IndexAfterStatement(f, "add")]
  /\ UNCHANGED <<inputs, outside, mainVars, wgf, idChan, idClosed, plugChan,
                 plugClosed, workerVars, cpc, callerVars, panicked, famCalls,
                 plugCalls>>

\* as FamilySend, but the send on idChan never waits for room
FamilySend_Unbounded(f) ==
  /\ Alive
  /\ fpc[f] = "send"
  /\ IF idClosed
       THEN /\ panicked' = "send on closed idChan"
            /\ UNCHANGED <<idChan, fpc, fidx>>
       ELSE /\ idChan' = Append(idChan, famPlugins[f][fidx[f]])
            /\ fpc' = [fpc EXCEPT ![f] = AfterStatement(f, "send")]
            /\ fidx' = [fidx EXCEPT ![f] = IndexAfterStatement(f, "send")]
            /\ UNCHANGED panicked
  /\ UNCHANGED <<inputs, outside, mainVars, wgf, wgp, idClosed, plugChan, plugClosed,
                 workerVars, cpc, callerVars, famCalls, plugCalls>>

\* idChan <- plugin.ID: blocks while the buffer is full, panics when closed
FamilySend(f) ==
  /\ Alive
  /\ fpc[f] = "send"
  /\ idClosed \/ Len(idChan) < IdChanCap
  /\ IF idClosed
       THEN /\ panicked' = "send on closed idChan"
            /\ UNCHANGED <<idChan, fpc, fidx>>
       ELSE /\ idChan' = Append(idChan, famPlugins[f][fidx[f]])
            /\ fpc' = [fpc EXCEPT ![f] = AfterStatement(f, "send")]
            /\ fidx' = [fidx EXCEPT ![f] = IndexAfterStatement(f, "send")]
            /\ UNCHANGED panicked
  /\ UNCHANGED <<inputs, outside, mainVars, wgf, wgp, idClosed, plugChan, plugClosed,
                 workerVars, cpc, callerVars, famCalls, plugCalls>>

\* as FamilyExit, but wgf.Done() is not deferred: the return on an error of
\* FamilyDetails skips it
FamilyExit_NotDeferred(f) ==
  /\ Alive
  /\ fpc[f] = "exit"
  /\ IF f \in famErr
       THEN /\ fpc' = [fpc EXCEPT ![f] = "done"]
            /\ UNCHANGED <<wgf, panicked>>
       ELSE IF wgf = 0
         THEN /\ panicked' = "negative WaitGroup counter"
              /\ UNCHANGED <<wgf, fpc>>
         ELSE /\ wgf' = wgf - 1
              /\ fpc' = [fpc EXCEPT ![f] = "done"]
              /\ UNCHANGED panicked
  /\ UNCHANGED <<inputs, outside, mainVars, fidx, wgp, idChan, idClosed, plugChan,
                 plugClosed, workerVars, cpc, callerVars, famCalls, plugCalls>>

\* defer wgf.Done(): runs when the goroutine returns, on either path
FamilyExit(f) ==
  /\ Alive
  /\ fpc[f] = "exit"
  /\ IF wgf = 0
       THEN /\ panicked' = "negative WaitGroup counter"
            /\ UNCHANGED <<wgf, fpc>>
       ELSE /\ wgf' = wgf - 1
            /\ fpc' = [fpc EXCEPT ![f] = "done"]
            /\ UNCHANGED panicked
  /\ UNCHANGED <<inputs, outside, mainVars, fidx, wgp, idChan, idClosed, plugChan,
                 plugClosed, workerVars, cpc, callerVars, famCalls, plugCalls>>

\* ---- the workers ----

\* "for id := range idChan" receives an ID; the worker issues PluginDetails(id)
WorkerRecv ==
  /\ Alive
  /\ wRecv > 0
  /\ Len(idChan) > 0
  /\ wRecv' = wRecv - 1
  /\ wFetch' = BagAdd(wFetch, Head(idChan))
  /\ plugCalls' = BagAdd(plugCalls, Head(idChan))
  /\ idChan' = Tail(idChan)
  /\ UNCHANGED <<inputs, outside, mainVars, famVars, wgf, wgp, idClosed, plugChan,
                 plugClosed, wSend, wDone, wExit, cpc, callerVars, panicked,
                 famCalls>>

\* "for id := range idChan" ends: idChan is closed and drained
WorkerExit ==
  /\ Alive
  /\ wRecv > 0
  /\ Len(idChan) = 0
  /\ idClosed
  /\ wRecv' = wRecv - 1
  /\ wExit' = wExit + 1
  /\ UNCHANGED <<inputs, outside, mainVars, famVars, wgf, wgp, idChan, idClosed,
                 plugChan, plugClosed, wFetch, wSend, wDone, cpc, callerVars,
                 panicked, famCalls, plugCalls>>

\* as WorkerReturn, but the error path continues without wgp.Done()
WorkerReturn_NoDone(id) ==
  /\ Alive
  /\ wFetch[id] > 0
  /\ wFetch' = BagRemove(wFetch, id)
  /\ IF id \in plugErr
       THEN /\ wRecv' = wRecv + 1
            /\ UNCHANGED wSend
       ELSE /\ wSend' = BagAdd(wSend, id)
            /\ UNCHANGED wRecv
  /\ UNCHANGED <<inputs, outside, mainVars, famVars, wgf, wgp, idChan, idClosed,
                 plugChan, plugClosed, wDone, wExit, cpc, callerVars, panicked,
                 famCalls, plugCalls>>

\* as WorkerReturn, but wgp.Done() also runs before the send on plugChan
WorkerReturn_DoneFirst(id) ==
  /\ Alive
  /\ wFetch[id] > 0
  /\ wFetch' = BagRemove(wFetch, id)
  /\ IF id \in plugErr
       THEN /\ wDone' = wDone + 1
            /\ UNCHANGED <<wSend, wgp>>
       ELSE /\ wSend' = BagAdd(wSend, id)
            /\ wgp' = wgp - 1
            /\ UNCHANGED wDone
  /\ UNCHANGED <<inputs, outside, mainVars, famVars, wgf, idChan, idClosed,
                 plugChan, plugClosed, wRecv, wExit, cpc, callerVars, panicked,
                 famCalls, plugCalls>>

\* as WorkerReturn, but the error path falls through to the send
WorkerReturn_SendOnErr(id) ==
  /\ Alive
  /\ wFetch[id] > 0
  /\ wFetch' = BagRemove(wFetch, id)
  /\ wSend' = BagAdd(wSend, id)
  /\ UNCHANGED <<inputs, outside, mainVars, famVars, wgf, wgp, idChan, idClosed,
                 plugChan, plugClosed, wRecv, wDone, wExit, cpc, callerVars,
                 panicked, famCalls, plugCalls>>

\* as WorkerReturn, but a failed PluginDetails(id) is called a second time
\* before the worker gives up
WorkerReturn_Retry(id) ==
  /\ Alive
  /\ wFetch[id] > 0
  /\ wFetch' = BagRemove(wFetch, id)
  /\ IF id \in plugErr
       THEN /\ wDone' = wDone + 1
            /\ plugCalls' = BagAdd(plugCalls, id)
            /\ UNCHANGED wSend
       ELSE /\ wSend' = BagAdd(wSend, id)
            /\ UNCHANGED <<wDone, plugCalls>>
  /\ UNCHANGED <<inputs, outside, mainVars, famVars, wgf, wgp, idChan, idClosed,
                 plugChan, plugClosed, wRecv, wExit, cpc, callerVars, panicked,
                 famCalls>>

\* plugin, err := n.PluginDetails(id) returns: on an error the worker goes to
\* wgp.Done() and continue, else to the send on plugChan
WorkerReturn(id) ==
  /\ Alive
  /\ wFetch[id] > 0
  /\ wFetch' = BagRemove(wFetch, id)
  /\ IF id \in plugErr
       THEN /\ wDone' = wDone + 1
            /\ UNCHANGED wSend
       ELSE /\ wSend' = BagAdd(wSend, id)
            /\ UNCHANGED wDone
  /\ UNCHANGED <<inputs, outside, mainVars, famVars, wgf, wgp, idChan, idClosed,
                 plugChan, plugClosed, wRecv, wExit, cpc, callerVars, panicked,
                 famCalls, plugCalls>>

\* plugChan <- *plugin: blocks while the buffer is full, panics when closed
WorkerSend(id) ==
  /\ Alive
  /\ wSend[id] > 0
  /\ plugClosed \/ Len(plugChan) < PlugChanCap
  /\ IF plugClosed
       THEN /\ panicked' = "send on closed plugChan"
            /\ UNCHANGED <<plugChan, wSend, wDone>>
       ELSE /\ plugChan' = Append(plugChan, id)
            /\ wSend' = BagRemove(wSend, id)
            /\ wDone' = wDone + 1
            /\ UNCHANGED panicked
  /\ UNCHANGED <<inputs, outside, mainVars, famVars, wgf, wgp, idChan, idClosed,
                 plugClosed, wRecv, wFetch, wExit, cpc, callerVars, famCalls,
                 plugCalls>>

\* wgp.Done(), then the next iteration of the range loop
WorkerDone ==
  /\ Alive
  /\ wDone > 0
  /\ IF wgp = 0
       THEN /\ panicked' = "negative WaitGroup counter"
            /\ UNCHANGED <<wgp, wDone, wRecv>>
       ELSE /\ wgp' = wgp - 1
            /\ wDone' = wDone - 1
            /\ wRecv' = wRecv + 1
            /\ UNCHANGED panicked
  /\ UNCHANGED <<inputs, outside, mainVars, famVars, wgf, idChan, idClosed, plugChan,
                 plugClosed, wFetch, wSend, wExit, cpc, callerVars, famCalls,
                 plugCalls>>

\* ---- the coordinator goroutine ----

\* as CoordWaitFamilies, but close(idChan) does not wait for wgf
CoordWaitFamilies_NoWait ==
  /\ Alive
  /\ cpc = "waitFamilies"
  /\ cpc' = "closeIds"
  /\ UNCHANGED <<inputs, outside, mainVars, famVars, wgf, wgp, idChan, idClosed,
                 plugChan, plugClosed, workerVars, callerVars, panicked,
                 famCalls, plugCalls>>

\* wgf.Wait() returns: the counter is zero
CoordWaitFamilies ==
  /\ Alive
  /\ cpc = "waitFamilies"
  /\ wgf = 0
  /\ cpc' = "closeIds"
  /\ UNCHANGED <<inputs, outside, mainVars, famVars, wgf, wgp, idChan, idClosed,
                 plugChan, plugClosed, workerVars, callerVars, panicked,
                 famCalls, plugCalls>>

\* as CoordCloseIds, but the coordinator goes on without close(idChan)
CoordCloseIds_Forget ==
  /\ Alive
  /\ cpc = "closeIds"
  /\ cpc' = "waitPlugins"
  /\ UNCHANGED <<inputs, outside, mainVars, famVars, wgf, wgp, idChan,
                 idClosed, plugChan, plugClosed, workerVars, callerVars,
                 panicked, famCalls, plugCalls>>

\* as CoordCloseIds, but the two close statements are swapped: plugChan is
\* closed here
CoordCloseIds_Swapped ==
  /\ Alive
  /\ cpc = "closeIds"
  /\ IF plugClosed
       THEN /\ panicked' = "close of closed channel"
            /\ UNCHANGED <<plugClosed, cpc>>
       ELSE /\ plugClosed' = TRUE
            /\ cpc' = "waitPlugins"
            /\ UNCHANGED panicked
  /\ UNCHANGED <<inputs, outside, mainVars, famVars, wgf, wgp, idChan, idClosed,
                 plugChan, workerVars, callerVars, famCalls, plugCalls>>

\* close(idChan)
CoordCloseIds ==
  /\ Alive
  /\ cpc = "closeIds"
  /\ IF idClosed
       THEN /\ panicked' = "close of closed channel"
            /\ UNCHANGED <<idClosed, cpc>>
       ELSE /\ idClosed' = TRUE
            /\ cpc' = "waitPlugins"
            /\ UNCHANGED panicked
  /\ UNCHANGED <<inputs, outside, mainVars, famVars, wgf, wgp, idChan, plugChan,
                 plugClosed, workerVars, callerVars, famCalls, plugCalls>>

\* as CoordWaitPlugins, but close(plugChan) does not wait for wgp
CoordWaitPlugins_NoWait ==
  /\ Alive
  /\ cpc = "waitPlugins"
  /\ cpc' = "closePlugs"
  /\ UNCHANGED <<inputs, outside, mainVars, famVars, wgf, wgp, idChan, idClosed,
                 plugChan, plugClosed, workerVars, callerVars, panicked,
                 famCalls, plugCalls>>

\* wgp.Wait() returns: the counter is zero
CoordWaitPlugins ==
  /\ Alive
  /\ cpc = "waitPlugins"
  /\ wgp = 0
  /\ cpc' = "closePlugs"
  /\ UNCHANGED <<inputs, outside, mainVars, famVars, wgf, wgp, idChan, idClosed,
                 plugChan, plugClosed, workerVars, callerVars, panicked,
                 famCalls, plugCalls>>

\* as CoordClosePlugs, but the goroutine ends without close(plugChan)
CoordClosePlugs_Forget ==
  /\ Alive
  /\ cpc = "closePlugs"
  /\ cpc' = "done"
  /\ UNCHANGED <<inputs, outside, mainVars, famVars, wgf, wgp, idChan,
                 idClosed, plugChan, plugClosed, workerVars, callerVars,
                 panicked, famCalls, plugCalls>>

\* close(plugChan); the goroutine ends
CoordClosePlugs ==
  /\ Alive
  /\ cpc = "closePlugs"
  /\ IF plugClosed
       THEN /\ panicked' = "close of closed channel"
            /\ UNCHANGED <<plugClosed, cpc>>
       ELSE /\ plugClosed' = TRUE
            /\ cpc' = "done"
            /\ UNCHANGED panicked
  /\ UNCHANGED <<inputs, outside, mainVars, famVars, wgf, wgp, idChan, idClosed,
                 plugChan, workerVars, callerVars, famCalls, plugCalls>>

\* ---- the caller of AllPlugins, ranging over the returned channel ----

\* the caller receives one record
CallerRecv ==
  /\ Alive
  /\ retChan = "plugChan"
  /\ ~callerStopped
  /\ ~callerDone
  /\ Len(plugChan) > 0
  /\ received' = BagAdd(received, Head(plugChan))
  /\ plugChan' = Tail(plugChan)
  /\ UNCHANGED <<inputs, outside, mainVars, famVars, wgf, wgp, idChan, idClosed,
                 plugClosed, workerVars, cpc, callerDone, panicked, famCalls,
                 plugCalls>>

\* the receive reports the channel closed and drained: end of data
CallerSeeClose ==
  /\ Alive
  /\ retChan = "plugChan"
  /\ ~callerStopped
  /\ ~callerDone
  /\ Len(plugChan) = 0
  /\ plugClosed
  /\ callerDone' = TRUE
  /\ UNCHANGED <<inputs, outside, mainVars, famVars, wgf, wgp, idChan, idClosed,
                 plugChan, plugClosed, workerVars, cpc, received, panicked,
                 famCalls, plugCalls>>

\* the caller stops receiving from the returned channel before its close
CallerStop ==
  /\ Alive
  /\ retChan = "plugChan"
  /\ ~callerDone
  /\ ~callerStopped
  /\ callerStopped' = TRUE
  /\ UNCHANGED <<inputs, self, peer, mainVars, famVars, wgf, wgp, idChan,
                 idClosed, plugChan, plugClosed, workerVars, cpc, callerVars,
                 panicked, famCalls, plugCalls>>

\* ---- two invocations of AllPlugins in one process ----

\* everything AllPlugins creates per call (its channels, its WaitGroups, its
\* goroutines), the replies its calls get and the caller of that call: the
\* variables above are those of the invocation self, peer holds the other's
Locals ==
  [listErr |-> listErr,
   families |-> families,
   famPlugins |-> famPlugins,
   famErr |-> famErr,
   plugErr |-> plugErr,
   mpc |-> mpc,
   fi |-> fi,
   wi |-> wi,
   retChan |-> retChan,
   retErr |-> retErr,
   fpc |-> fpc,
   fidx |-> fidx,
   wgf |-> wgf,
   wgp |-> wgp,
   idChan |-> idChan,
   idClosed |-> idClosed,
   plugChan |-> plugChan,
   plugClosed |-> plugClosed,
   wRecv |-> wRecv,
   wFetch |-> wFetch,
   wSend |-> wSend,
   wDone |-> wDone,
   wExit |-> wExit,
   cpc |-> cpc,
   received |-> received,
   callerDone |-> callerDone,
   famCalls |-> famCalls,
   plugCalls |-> plugCalls]

\* as Switch, but idChan is one queue shared by the two invocations
Switch_SharedIdChan ==
  /\ Alive
  /\ self' = IF self = 1 THEN 2 ELSE 1
  /\ peer' = Locals
  /\ listErr' = peer.listErr
  /\ families' = peer.families
  /\ famPlugins' = peer.famPlugins
  /\ famErr' = peer.famErr
  /\ plugErr' = peer.plugErr
  /\ mpc' = peer.mpc
  /\ fi' = peer.fi
  /\ wi' = peer.wi
  /\ retChan' = peer.retChan
  /\ retErr' = peer.retErr
  /\ fpc' = peer.fpc
  /\ fidx' = peer.fidx
  /\ wgf' = peer.wgf
  /\ wgp' = peer.wgp
  /\ plugChan' = peer.plugChan
  /\ plugClosed' = peer.plugClosed
  /\ wRecv' = peer.wRecv
  /\ wFetch' = peer.wFetch
  /\ wSend' = peer.wSend
  /\ wDone' = peer.wDone
  /\ wExit' = peer.wExit
  /\ cpc' = peer.cpc
  /\ received' = peer.received
  /\ callerDone' = peer.callerDone
  /\ famCalls' = peer.famCalls
  /\ plugCalls' = peer.plugCalls
  /\ UNCHANGED <<idChan, idClosed, panicked, callerStopped>>

\* the next step is taken by the other invocation: nothing of an invocation
\* is visible to the other, so its state is set aside whole
Switch ==
  /\ Alive
  /\ self' = IF self = 1 THEN 2 ELSE 1
  /\ peer' = Locals
  /\ listErr' = peer.listErr
  /\ families' = peer.families
  /\ famPlugins' = peer.famPlugins
  /\ famErr' = peer.famErr
  /\ plugErr' = peer.plugErr
  /\ mpc' = peer.mpc
  /\ fi' = peer.fi
  /\ wi' = peer.wi
  /\ retChan' = peer.retChan
  /\ retErr' = peer.retErr
  /\ fpc' = peer.fpc
  /\ fidx' = peer.fidx
  /\ wgf' = peer.wgf
  /\ wgp' = peer.wgp
  /\ idChan' = peer.idChan
  /\ idClosed' = peer.idClosed
  /\ plugChan' = peer.plugChan
  /\ plugClosed' = peer.plugClosed
  /\ wRecv' = peer.wRecv
  /\ wFetch' = peer.wFetch
  /\ wSend' = peer.wSend
  /\ wDone' = peer.wDone
  /\ wExit' = peer.wExit
  /\ cpc' = peer.cpc
  /\ received' = peer.received
  /\ callerDone' = peer.callerDone
  /\ famCalls' = peer.famCalls
  /\ plugCalls' = peer.plugCalls
  /\ UNCHANGED <<panicked, callerStopped>>

Next ==
  \/ MainList
  \/ MainSpawnFamily
  \/ MainSpawnWorker
  \/ MainSpawnCoord
  \/ MainReturn
  \/ \E f \in FamilyIDs : FamilyCall(f)
  \/ \E f \in FamilyIDs : FamilyReturn(f)
  \/ \E f \in FamilyIDs : FamilyAdd(f)
  \/ \E f \in FamilyIDs : FamilySend(f)
  \/ \E f \in FamilyIDs : FamilyExit(f)
  \/ WorkerRecv
  \/ WorkerExit
  \/ \E id \in PluginIDs : WorkerReturn(id)
  \/ \E id \in PluginIDs : WorkerSend(id)
  \/ WorkerDone
  \/ CoordWaitFamilies
  \/ CoordCloseIds
  \/ CoordWaitPlugins
  \/ CoordClosePlugs
  \/ CallerRecv
  \/ CallerSeeClose

Spec == Init /\ [][Next]_vars

TypeOK ==
  /\ wgf \in Nat
  /\ wgp \in Nat
  /\ Len(idChan) <= IdChanCap
  /\ Len(plugChan) <= PlugChanCap
  /\ wRecv + BagSize(wFetch) + BagSize(wSend) + wDone + wExit = wi

\* Every goroutine that can take a step eventually takes it (the Go scheduler
\* runs every runnable goroutine), every gateway call returns, and the caller
\* keeps receiving from the returned channel until it is closed.
Fairness ==
  /\ WF_vars(MainList)
  /\ WF_vars(MainSpawnFamily)
  /\ WF_vars(MainSpawnWorker)
  /\ WF_vars(MainSpawnCoord)
  /\ WF_vars(MainReturn)
  /\ \A f \in FamilyIDs : WF_vars(FamilyCall(f))
  /\ \A f \in FamilyIDs : WF_vars(FamilyReturn(f))
  /\ \A f \in FamilyIDs : WF_vars(FamilyAdd(f))
  /\ \A f \in FamilyIDs : WF_vars(FamilySend(f))
  /\ \A f \in FamilyIDs : WF_vars(FamilyExit(f))
  /\ WF_vars(WorkerRecv)
  /\ WF_vars(WorkerExit)
  /\ \A id \in PluginIDs : WF_vars(WorkerReturn(id))
  /\ \A id \in PluginIDs : WF_vars(WorkerSend(id))
  /\ WF_vars(WorkerDone)
  /\ WF_vars(CoordWaitFamilies)
  /\ WF_vars(CoordCloseIds)
  /\ WF_vars(CoordWaitPlugins)
  /\ WF_vars(CoordClosePlugs)
  /\ WF_vars(CallerRecv)
  /\ WF_vars(CallerSeeClose)

\* the runs whose termination is checked: at most MaxLiveLeaves plugin IDs
\* enter the pipeline
MaxLiveLeaves == 2

InitLive == Init /\ Enqueued(famPlugins, famErr) <= MaxLiveLeaves

LiveSpec == InitLive /\ [][Next]_vars /\ Fairness

SpecFull == InitFull /\ [][Next]_vars

SpecBackpressure == InitBackpressure /\ [][Next]_vars

\* the runs in which the caller may abandon the channel
NextAbandon == Next \/ CallerStop

SpecAbandon == InitAbandon /\ [][NextAbandon]_vars

\* the state of an invocation before it has run a statement, when its listing
\* returns the family f alone and that family lists the plugin f alone
FreshLocals(f) ==
  [listErr |-> FALSE,
   families |-> <<f>>,
   famPlugins |-> [g \in FamilyIDs |-> IF g = f THEN <<f>> ELSE <<>>],
   famErr |-> {},
   plugErr |-> {},
   mpc |-> "list",
   fi |-> 0,
   wi |-> 0,
   retChan |-> "none",
   retErr |-> "none",
   fpc |-> [g \in FamilyIDs |-> "unspawned"],
   fidx |-> [g \in FamilyIDs |-> 0],
   wgf |-> 0,
   wgp |-> 0,
   idChan |-> <<>>,
   idClosed |-> FALSE,
   plugChan |-> <<>>,
   plugClosed |-> FALSE,
   wRecv |-> 0,
   wFetch |-> EmptyBag,
   wSend |-> EmptyBag,
   wDone |-> 0,
   wExit |-> 0,
   cpc |-> "unspawned",
   received |-> EmptyBag,
   callerDone |-> FALSE,
   famCalls |-> [g \in FamilyIDs |-> 0],
   plugCalls |-> EmptyBag]

\* two invocations are about to start: the first is answered with family 1
\* and plugin 1, the second with family 2 and plugin 2
InitTwo ==
  /\ listErr = FreshLocals(1).listErr
  /\ families = FreshLocals(1).families
  /\ famPlugins = FreshLocals(1).famPlugins
  /\ famErr = FreshLocals(1).famErr
  /\ plugErr = FreshLocals(1).plugErr
  /\ mpc = FreshLocals(1).mpc
  /\ fi = FreshLocals(1).fi
  /\ wi = FreshLocals(1).wi
  /\ retChan = FreshLocals(1).retChan
  /\ retErr = FreshLocals(1).retErr
  /\ fpc = FreshLocals(1).fpc
  /\ fidx = FreshLocals(1).fidx
  /\ wgf = FreshLocals(1).wgf
  /\ wgp = FreshLocals(1).wgp
  /\ idChan = FreshLocals(1).idChan
  /\ idClosed = FreshLocals(1).idClosed
  /\ plugChan = FreshLocals(1).plugChan
  /\ plugClosed = FreshLocals(1).plugClosed
  /\ wRecv = FreshLocals(1).wRecv
  /\ wFetch = FreshLocals(1).wFetch
  /\ wSend = FreshLocals(1).wSend
  /\ wDone = FreshLocals(1).wDone
  /\ wExit = FreshLocals(1).wExit
  /\ cpc = FreshLocals(1).cpc
  /\ received = FreshLocals(1).received
  /\ callerDone = FreshLocals(1).callerDone
  /\ famCalls = FreshLocals(1).famCalls
  /\ plugCalls = FreshLocals(1).plugCalls
  /\ peer = FreshLocals(2)
  /\ self = 1
  /\ panicked = "none"
  /\ callerStopped = FALSE

NextTwo == Next \/ Switch

SpecTwo == InitTwo /\ [][NextTwo]_vars

\* ---- what the inputs say the caller is to receive ----

\* number of times the families whose fetch succeeds list id
Listed(id) ==
  SumOver([f \in FamilyIDs |->
             IF f \in famErr THEN 0 ELSE Occurrences(famPlugins[f], id)],
          FamilyIDs)

\* number of records for id the caller is to receive
Expected(id) == IF id \in plugErr THEN 0 ELSE Listed(id)

ExpectedBag == [id \in PluginIDs |-> Expected(id)]

\* ---- claims ----

C2_EmittedCount ==
  /\ BagSize(received) <= BagSize(ExpectedBag)
  /\ callerDone => BagSize(received) = BagSize(ExpectedBag)

C2_Witness ==
  /\ callerDone
  /\ famErr # {}
  /\ plugErr # {}
  /\ BagSize(received) = 2
  /\ Enqueued(famPlugins, famErr) = 3

\* C3: when no gateway call fails, the multiset of plugin IDs received up to
\* the close is the multiset union of the IDs the families list.
C3_MultisetUnion ==
  (famErr = {} /\ plugErr = {} /\ callerDone) =>
    \A id \in PluginIDs :
      received[id] = SumOver([f \in FamilyIDs |-> Occurrences(famPlugins[f], id)],
                             FamilyIDs)

C3_Witness ==
  /\ callerDone
  /\ famErr = {}
  /\ plugErr = {}
  /\ received[1] = 2
  /\ received[2] = 1

\* C4: plugChan is closed only with the pending-plugin counter at zero and
\* idChan closed and empty, no worker holds a record to send or sends on the
\* closed channel, and the caller sees end-of-data only after the close.
C4_PlugChanClose ==
  /\ plugClosed =>
        /\ wgp = 0
        /\ idClosed
        /\ Len(idChan) = 0
        /\ BagSize(wFetch) = 0
        /\ BagSize(wSend) = 0
  /\ panicked # "send on closed plugChan"
  /\ callerDone => plugClosed

C4_Witness ==
  /\ plugClosed
  /\ ~callerDone
  /\ Len(plugChan) = 3

\* C5: idChan is closed only after every family goroutine has exited, and no
\* family goroutine sends on the closed idChan, also when one of them is
\* blocked on the full idChan while the others exit.
C5_IdChanClose ==
  /\ idClosed => \A i \in 1..Len(families) : fpc[families[i]] = "done"
  /\ panicked # "send on closed idChan"

C5_Witness ==
  /\ fpc[1] = "send"
  /\ Len(idChan) = IdChanCap
  /\ fpc[2] = "done"
  /\ cpc = "waitFamilies"
  /\ ~idClosed

\* C6: the pending-plugin counter is at least the number of IDs buffered in
\* idChan plus the number of IDs a worker has dequeued and not yet resolved.
C6_CountedBeforeVisible ==
  wgp >= Len(idChan) + BagSize(wFetch) + BagSize(wSend) + wDone

C6_Witness ==
  /\ Len(idChan) = 1
  /\ BagSize(wFetch) = 1
  /\ wDone = 1
  /\ wgp = 3

\* C7: a family whose FamilyDetails call fails never enters its loop and puts
\* nothing on idChan, the process does not panic, and the caller still
\* receives every record of the other families: with A (3 plugins, fetch
\* fails) and B (2 plugins), exactly B's 2 records.
C7_FamilyFailureIsolated ==
  /\ \A f \in famErr :
        /\ fidx[f] = 0
        /\ fpc[f] \in {"unspawned", "start", "fetching", "exit", "done"}
  /\ famErr # {} => Alive
  /\ (famErr # {} /\ callerDone) =>
        \A id \in PluginIDs \ plugErr :
          received[id] =
            SumOver([f \in FamilyIDs |->
                       IF f \in famErr THEN 0 ELSE Occurrences(famPlugins[f], id)],
                    FamilyIDs)
  /\ (/\ families = <<1, 2>>
      /\ famErr = {1}
      /\ famPlugins[1] = <<1, 2, 3>>
      /\ famPlugins[2] = <<1, 2>>
      /\ plugErr = {}
      /\ callerDone) =>
        /\ BagSize(received) = 2
        /\ received[1] = 1
        /\ received[2] = 1

C7_Witness ==
  /\ families = <<1, 2>>
  /\ famErr = {1}
  /\ famPlugins[1] = <<1, 2, 3>>
  /\ famPlugins[2] = <<1, 2>>
  /\ plugErr = {}
  /\ callerDone
  /\ plugClosed
  /\ fpc[1] = "done"

\* C8: a plugin whose PluginDetails call fails is never put on plugChan, its
\* worker decrements the counter and goes on, and the siblings are received:
\* for a family listing 1, 2, 3 where 2 fails, records 1 and 3 and not 2.
C8_PluginFailureIsolated ==
  /\ \A id \in plugErr :
        /\ wSend[id] = 0
        /\ Occurrences(plugChan, id) = 0
        /\ received[id] = 0
  /\ (plugErr # {} /\ callerDone) =>
        /\ wgp = 0
        /\ wRecv + wExit = NumWorkers
        /\ \A id \in PluginIDs \ plugErr : received[id] = Listed(id)
  /\ (/\ families = <<1>>
      /\ famErr = {}
      /\ famPlugins[1] = <<1, 2, 3>>
      /\ plugErr = {2}
      /\ callerDone) =>
        /\ received[1] = 1
        /\ received[2] = 0
        /\ received[3] = 1

C8_Witness ==
  /\ families = <<1>>
  /\ famErr = {}
  /\ famPlugins[1] = <<1, 2, 3>>
  /\ plugErr = {2}
  /\ callerDone
  /\ plugCalls[2] = 1

\* C9: when the listing fails, AllPlugins returns the error and a nil channel
\* and nothing is started: no family goroutine, worker or coordinator, and no
\* FamilyDetails or PluginDetails call.
C9_ListingFailure ==
  listErr =>
    /\ mpc \in {"list", "returned"}
    /\ mpc = "returned" => (retErr = "err" /\ retChan = "nil")
    /\ fi = 0
    /\ wi = 0
    /\ cpc = "unspawned"
    /\ \A f \in FamilyIDs : fpc[f] = "unspawned" /\ famCalls[f] = 0
    /\ \A id \in PluginIDs : plugCalls[id] = 0
    /\ wgf = 0
    /\ wgp = 0

C9_Witness ==
  /\ listErr
  /\ mpc = "returned"
  /\ retErr = "err"
  /\ Len(families) = 2

\* C10: AllPlugins returns a non-nil error exactly when the listing failed;
\* otherwise it returns the channel and a nil error whatever later fails, and
\* no failed item reaches the caller.
C10_ErrorOnlyFromListing ==
  /\ mpc # "returned" => (retErr = "none" /\ retChan = "none")
  /\ mpc = "returned" =>
        /\ (retErr = "err") <=> listErr
        /\ (retErr = "nil") <=> ~listErr
        /\ (retChan = "plugChan") <=> ~listErr
  /\ \A i \in 1..Len(plugChan) : plugChan[i] \notin plugErr

C10_Witness ==
  /\ mpc = "returned"
  /\ retErr = "nil"
  /\ retChan = "plugChan"
  /\ famErr # {}
  /\ plugErr # {}
  /\ callerDone

\* C11: at most NumWorkers (10) PluginDetails calls are in flight at any
\* time, however many plugin IDs are queued and family goroutines running.
C11_FetchesBounded ==
  /\ BagSize(wFetch) <= NumWorkers
  /\ BagSize(wFetch) + BagSize(wSend) + wDone + wRecv + wExit <= NumWorkers

C11_Witness ==
  /\ BagSize(wFetch) = NumWorkers
  /\ Len(idChan) >= NumWorkers
  /\ fpc[1] = "send"

\* every goroutine AllPlugins launched has ended, and AllPlugins has returned
AllTasksDone ==
  /\ mpc = "returned"
  /\ \A i \in 1..Len(families) : fpc[families[i]] = "done"
  /\ wi = NumWorkers
  /\ wExit = NumWorkers
  /\ cpc = "done"

\* C12: when the caller has stopped receiving before the close and every
\* gateway call returns, the family goroutines, the workers and the
\* coordinator still run to completion: once no goroutine can take a step,
\* all of them have ended.
C12_TasksCompleteAfterStop ==
  (callerStopped /\ ~ENABLED NextAbandon) => AllTasksDone

\* no plugin ID can enter the pipeline: the listing is empty, or every family
\* fetch succeeds with an empty plugin list
NoLeaves ==
  /\ ~listErr
  /\ famErr = {}
  /\ \A f \in FamilyIDs : Len(famPlugins[f]) = 0

\* C13: with zero families, or only families that list zero plugins,
\* AllPlugins returns the channel and a nil error, no PluginDetails call is
\* issued, no record is ever put on the channel, and the channel is closed.
C13_EmptyEnumeration ==
  /\ [](NoLeaves =>
          /\ Len(plugChan) = 0
          /\ BagSize(received) = 0
          /\ BagSize(plugCalls) = 0
          /\ Len(idChan) = 0
          /\ mpc = "returned" => (retErr = "nil" /\ retChan = "plugChan"))
  /\ NoLeaves ~> (plugClosed /\ callerDone /\ retErr = "nil")

C13_Witness ==
  /\ NoLeaves
  /\ Len(families) = 1
  /\ famCalls[1] = 1
  /\ plugClosed
  /\ callerDone

\* number of family goroutines that have run their deferred wgf.Done()
FamiliesExited == Cardinality({f \in FamilyIDs : fpc[f] = "done"})

\* number of wgp.Add(1) the goroutine of family f has executed
LeafAdds(f) ==
  IF fidx[f] = 0 THEN 0
  ELSE IF fpc[f] = "add" THEN fidx[f] - 1
  ELSE fidx[f]

\* number of PluginDetails calls whose worker has executed wgp.Done()
LeafDones == BagSize(plugCalls) - BagSize(wFetch) - BagSize(wSend) - wDone

\* C14: the pending-family counter is one per family spawned minus one per
\* family goroutine that has exited (on success or failure), the pending-leaf
\* counter is one per enqueue started minus one per fetch resolved (on success
\* or failure); neither is ever negative and both are zero, with every listed
\* leaf counted once, when the output channel is closed.
C14_CountersExact ==
  /\ wgf = fi - FamiliesExited
  /\ wgp = SumOver([f \in FamilyIDs |-> LeafAdds(f)], FamilyIDs) - LeafDones
  /\ wgf >= 0
  /\ wgp >= 0
  /\ panicked # "negative WaitGroup counter"
  /\ plugClosed =>
       /\ wgf = 0
       /\ wgp = 0
       /\ FamiliesExited = Len(families)
       /\ LeafDones = Enqueued(famPlugins, famErr)

C14_Witness ==
  /\ plugClosed
  /\ famErr # {}
  /\ plugErr # {}
  /\ BagSize(plugCalls) >= 2
  /\ BagSize(received) >= 1

\* C15: plugChan never buffers more than 20 records and idChan never more
\* than 20 IDs; a worker does not send while plugChan is full and a family
\* goroutine does not send while idChan is full, so the records fetched and
\* not yet received by the caller (buffered in plugChan or held by a worker
\* at the send) never number more than 20 plus the 10 workers.
C15_Backpressure ==
  /\ Len(plugChan) <= PlugChanCap
  /\ Len(idChan) <= IdChanCap
  /\ Len(plugChan) + BagSize(wSend) <= PlugChanCap + NumWorkers
  /\ (Len(plugChan) = PlugChanCap /\ ~plugClosed) =>
       \A id \in PluginIDs : ~ENABLED WorkerSend(id)
  /\ (Len(idChan) = IdChanCap /\ ~idClosed) =>
       \A f \in FamilyIDs : ~ENABLED FamilySend(f)

C15_Witness ==
  /\ Len(plugChan) = PlugChanCap
  /\ BagSize(wSend) = NumWorkers
  /\ BagSize(received) = 0
  /\ Len(idChan) = 1
  /\ fpc[1] = "done"

\* C16: FamilyDetails is called at most once per family, and once for every
\* listed family by the time the caller sees the close; PluginDetails is
\* never called more often for an ID than the families whose fetch succeeded
\* list it (an ID still queued is not yet called), and exactly that often by
\* the time the caller sees the close: no retry, no re-enqueue, no call for a
\* plugin of a family whose fetch failed.
C16_CallsExactlyOnce ==
  /\ \A f \in FamilyIDs :
       /\ famCalls[f] <= 1
       /\ famCalls[f] = 1 <=> fpc[f] \notin {"unspawned", "start"}
  /\ \A id \in PluginIDs :
       plugCalls[id] + Occurrences(idChan, id) <= Listed(id)
  /\ callerDone =>
       /\ \A i \in 1..Len(families) : famCalls[families[i]] = 1
       /\ \A id \in PluginIDs : plugCalls[id] = Listed(id)
       /\ Len(idChan) = 0

C16_Witness ==
  /\ callerDone
  /\ plugErr = {1}
  /\ plugCalls[1] = 2
  /\ plugCalls[2] = 1
  /\ received[2] = 1

LeafWaitBegun == cpc \in {"waitPlugins", "closePlugs", "done"}

\* C18: the coordinator closes idChan only at close(idChan), after wgf.Wait()
\* has returned, and plugChan only at close(plugChan), after wgp.Wait() has
\* returned and in a later step than the close of idChan; neither channel is
\* closed twice or reopened, both are closed when the coordinator has ended,
\* and nothing is enqueued on idChan once the coordinator is at wgp.Wait().
C18_ClosingProtocol ==
  /\ [](plugClosed => idClosed)
  /\ [](LeafWaitBegun <=> idClosed)
  /\ [](cpc = "done" <=> plugClosed)
  /\ [](panicked # "close of closed channel")
  /\ [][idClosed' # idClosed =>
          /\ ~idClosed /\ idClosed'
          /\ cpc = "closeIds" /\ cpc' = "waitPlugins"
          /\ wgf = 0
          /\ plugClosed' = plugClosed]_vars
  /\ [][plugClosed' # plugClosed =>
          /\ ~plugClosed /\ plugClosed'
          /\ cpc = "closePlugs" /\ cpc' = "done"
          /\ wgp = 0
          /\ idClosed /\ idClosed']_vars
  /\ [][LeafWaitBegun => Len(idChan') <= Len(idChan)]_vars

C18_Witness ==
  /\ idClosed
  /\ ~plugClosed
  /\ cpc = "waitPlugins"
  /\ wgp > 0
  /\ Len(idChan) > 0

\* no worker holds an ID or a record, and no ID is queued
NoLeafPending ==
  /\ Len(idChan) = 0
  /\ BagSize(wFetch) + BagSize(wSend) + wDone = 0

\* C19: wgf is incremented only before the coordinator exists, so all the
\* wgf.Add(1) precede wgf.Wait(); wgp is incremented only while a family
\* goroutine is still counted in wgf, so all the wgp.Add(1) precede
\* wgp.Wait(); hence wgf at zero under wgf.Wait() means every family goroutine
\* has exited, and wgp at zero under wgp.Wait() means no leaf is pending.
C19_NoLateIncrement ==
  /\ [][wgf' > wgf => (cpc = "unspawned" /\ cpc' = "unspawned")]_vars
  /\ [][wgp' > wgp => (wgf > 0 /\ cpc \in {"unspawned", "waitFamilies"})]_vars
  /\ [](cpc # "unspawned" => fi = Len(families))
  /\ []((cpc = "waitFamilies" /\ wgf = 0) =>
          \A i \in 1..Len(families) : fpc[families[i]] = "done")
  /\ []((cpc = "waitPlugins" /\ wgp = 0) => NoLeafPending)

C19_Witness ==
  /\ cpc = "waitFamilies"
  /\ wgf > 0
  /\ wgp > 0
  /\ \E f \in FamilyIDs : fpc[f] = "add"

FamiliesInFlight == {f \in FamilyIDs : fpc[f] = "fetching"}

C21_FetchesOverlap ==
  /\ FamiliesInFlight # {}
  /\ BagSize(wFetch) > 0
====
